---- MODULE Spec2Model ----
(***************************************************************************)
(* Model of the gptdiff plugin hook scripts:                               *)
(*   hooks/gptdiff_apply.py   (specification Spec)                         *)
(*   hooks/prepare_context.py (specification SpecPrepare)                  *)
(*   hooks/list_agents.py     (specification SpecAgents)                   *)
(* Strings that the code inspects character by character (paths, the diff  *)
(* text, the goal) are sequences of one-character strings.                 *)
(***************************************************************************)
EXTENDS Integers, Sequences, FiniteSets, TLC

(* ------------------------------ bounds -------------------------------- *)
MaxTargets == 2     \* longest --dir list and longest --file list
MaxUpdated == 2     \* most entries in the mapping smartapply returns
MaxBeats == 1       \* most progress lines the heartbeat prints
MaxDocs == 2        \* most agent documents in one agents directory
MaxPaths == 2       \* most search paths given to find_agents

(* ------------------- str methods used by the scripts ------------------- *)
Slash == "/"
Dot == <<".">>
DotDot == <<".", ".">>
Whitespace == {" ", "\n", "\t"}

startswith(s, pre) == Len(s) >= Len(pre) /\ SubSeq(s, 1, Len(pre)) = pre

endswith(s, suf) == Len(s) >= Len(suf) /\ SubSeq(s, Len(s) - Len(suf) + 1, Len(s)) = suf

RECURSIVE splitFrom(_, _, _)
splitFrom(s, sep, cur) ==
    IF s = <<>> THEN <<cur>>
    ELSE IF Head(s) = sep THEN <<cur>> \o splitFrom(Tail(s), sep, <<>>)
    ELSE splitFrom(Tail(s), sep, Append(cur, Head(s)))

split(s, sep) == splitFrom(s, sep, <<>>)

RECURSIVE str_join(_, _)
str_join(sep, l) ==
    IF l = <<>> THEN <<>>
    ELSE IF Len(l) = 1 THEN l[1]
    ELSE l[1] \o <<sep>> \o str_join(sep, Tail(l))

RECURSIVE repeat(_, _)
repeat(x, n) == IF n <= 0 THEN <<>> ELSE <<x>> \o repeat(x, n - 1)

RECURSIVE rfind(_, _)
rfind(s, c) ==
    IF s = <<>> THEN 0
    ELSE IF s[Len(s)] = c THEN Len(s)
    ELSE rfind(SubSeq(s, 1, Len(s) - 1), c)

RECURSIVE rstrip(_, _)
rstrip(s, cs) ==
    IF s # <<>> /\ s[Len(s)] \in cs THEN rstrip(SubSeq(s, 1, Len(s) - 1), cs) ELSE s

RECURSIVE lstrip(_, _)
lstrip(s, cs) == IF s # <<>> /\ Head(s) \in cs THEN lstrip(Tail(s), cs) ELSE s

strip(s) == rstrip(lstrip(s, Whitespace), Whitespace)

(* ------------------------------- inputs -------------------------------- *)
Range(s) == { s[i] : i \in 1..Len(s) }

\* the working directory
CWD == <<"/", "w">>

\* the disk at start-up: /w/p and /w/q are project directories
DiskDirs == { <<"/">>, <<"/", "w">>, <<"/", "w", "/", "p">>, <<"/", "w", "/", "q">> }

DiskFiles == { <<"/", "w", "/", "p", "/", "a">>,
               <<"/", "w", "/", "p", "/", ".", ".", "c">>,
               <<"/", "w", "/", "q", "/", "b">>,
               <<"/", "w", "/", "f">> }

\* --dir and --file values: two project directories (one relative, one
\* absolute with a trailing slash) and a name that does not exist; one file
\* and a name that does not exist
DirArgs == << <<"p">>, <<"/", "w", "/", "q", "/">>, <<"n", "o">> >>

FileArgs == << <<"f">>, <<"/", "w", "/", "n", "f">> >>

\* entries smartapply may return: an unchanged and a changed existing file, a
\* new file given by a relative path, a file whose name begins with two dots,
\* a file of the other project, an absolute path that climbs out of /w/p, and
\* a relative path that climbs out of the working directory
UpdEntries ==
    { [path |-> <<"/", "w", "/", "p", "/", "a">>, content |-> "x"],
      [path |-> <<"/", "w", "/", "p", "/", "a">>, content |-> "y"],
      [path |-> <<"p", "/", "n">>, content |-> "y"],
      [path |-> <<"/", "w", "/", "p", "/", ".", ".", "c">>, content |-> "y"],
      [path |-> <<"/", "w", "/", "q", "/", "b">>, content |-> "y"],
      [path |-> <<"/", "w", "/", "p", "/", ".", ".", "/", "f">>, content |-> "y"],
      [path |-> <<".", ".", "/", "e">>, content |-> "y"] }

(* --------------------------- os.path (posix) --------------------------- *)

isabs(s) == startswith(s, <<Slash>>)

path_join(a, b) ==
    IF startswith(b, <<Slash>>) THEN b
    ELSE IF a = <<>> \/ endswith(a, <<Slash>>) THEN a \o b
    ELSE a \o <<Slash>> \o b

RECURSIVE normComps(_, _, _)
normComps(comps, initial_slashes, new_comps) ==
    IF comps = <<>> THEN new_comps
    ELSE LET comp == Head(comps) IN
        IF comp \in {<<>>, Dot}
            THEN normComps(Tail(comps), initial_slashes, new_comps)
        ELSE IF \/ comp # DotDot
                \/ (initial_slashes = 0 /\ new_comps = <<>>)
                \/ (new_comps # <<>> /\ new_comps[Len(new_comps)] = DotDot)
            THEN normComps(Tail(comps), initial_slashes, Append(new_comps, comp))
        ELSE IF new_comps # <<>>
            THEN normComps(Tail(comps), initial_slashes,
                           SubSeq(new_comps, 1, Len(new_comps) - 1))
        ELSE normComps(Tail(comps), initial_slashes, new_comps)

normpath(path) ==
    IF path = <<>> THEN Dot
    ELSE LET initial_slashes ==
                 IF ~startswith(path, <<Slash>>) THEN 0
                 ELSE IF /\ startswith(path, <<Slash, Slash>>)
                         /\ ~startswith(path, <<Slash, Slash, Slash>>)
                      THEN 2 ELSE 1
             joined == str_join(Slash, normComps(split(path, Slash), initial_slashes, <<>>))
             res == repeat(Slash, initial_slashes) \o joined
         IN IF res = <<>> THEN Dot ELSE res

posix_abspath(path) == normpath(IF isabs(path) THEN path ELSE path_join(CWD, path))

nonEmpty(l) == SelectSeq(l, LAMBDA x : x # <<>>)

RECURSIVE commonLen(_, _)
commonLen(a, b) ==
    IF a = <<>> \/ b = <<>> \/ Head(a) # Head(b) THEN 0
    ELSE 1 + commonLen(Tail(a), Tail(b))

posix_relpath(path, start) ==
    LET start_list == nonEmpty(split(posix_abspath(start), Slash))
        path_list == nonEmpty(split(posix_abspath(path), Slash))
        i == commonLen(start_list, path_list)
        rel_list == repeat(DotDot, Len(start_list) - i)
                        \o SubSeq(path_list, i + 1, Len(path_list))
    IN IF rel_list = <<>> THEN Dot ELSE str_join(Slash, rel_list)

\* os.path.abspath and os.path.relpath as the scripts call them.  The values
\* for the paths that occur in the inputs are tabulated once; a table entry
\* is what the computation above gives.
KnownPaths ==
    LET given == DiskDirs \cup DiskFiles \cup Range(DirArgs) \cup Range(FileArgs)
                    \cup { e.path : e \in UpdEntries } \cup {Dot}
    IN given \cup { posix_abspath(p) : p \in given }

AbspathTable == [p \in KnownPaths |-> posix_abspath(p)]

RelpathTable == [p \in KnownPaths, q \in KnownPaths |-> posix_relpath(p, q)]

abspath(path) == IF path \in KnownPaths THEN AbspathTable[path] ELSE posix_abspath(path)

relpath(path, start) ==
    IF path \in KnownPaths /\ start \in KnownPaths
        THEN RelpathTable[path, start]
        ELSE posix_relpath(path, start)

dirname(p) ==
    LET head == SubSeq(p, 1, rfind(p, Slash))
    IN IF head # <<>> /\ head # repeat(Slash, Len(head)) THEN rstrip(head, {Slash}) ELSE head

basename(p) == SubSeq(p, rfind(p, Slash) + 1, Len(p))

DiskContent(p) == "x"

isdir(p) == abspath(p) \in DiskDirs

isfile(p) == abspath(p) \in DiskFiles

\* Components of a path once resolved; p lies in the subtree of d when d's
\* components are a prefix of p's.
Components(p) == nonEmpty(split(abspath(p), Slash))

InSubtree(p, d) ==
    LET pc_ == Components(p)
        dc_ == Components(d)
    IN Len(dc_) <= Len(pc_) /\ SubSeq(pc_, 1, Len(dc_)) = dc_

SeqsUpTo(S, n) == UNION { [1..k -> S] : k \in 0..n }


(* ======================= hooks/gptdiff_apply.py ======================== *)
VARIABLES
    pc,              \* position of main()
    exited,          \* the process has terminated
    exit_code,       \* its exit status, meaningful once exited
    args,            \* parsed command line: dir, file, dry_run
    goal,
    target_dirs,     \* validated absolute directories, in order
    target_files,    \* validated absolute files, in order
    files,           \* original mapping: absolute path -> content
    stop_heartbeat,  \* threading.Event
    hb_pc,           \* position of heartbeat(): idle, wait, print, done
    dots,
    diff_text,
    updated_files,   \* mapping returned by smartapply, in iteration order
    idx,             \* position of the write-back loop in updated_files
    skipped_files,
    saved_count,
    attempted,       \* abs paths for which the save try-block was entered
    mkdirs,          \* directories handed to os.makedirs
    save_errors,     \* paths reported by "Error saving file"
    gen_calls,       \* invocations of generate_diff
    gen_outcome,     \* how that call ended: none, returned, raised
    apply_calls,     \* invocations of smartapply
    apply_outcome,   \* how that call ended: none, returned, raised
    loads,           \* invocations of load_project_files / open(.., 'r')
    stdout           \* lines printed to standard output

applyVars == << pc, exited, exit_code, args, goal, target_dirs, target_files, files,
                stop_heartbeat, hb_pc, dots, diff_text, updated_files, idx,
                skipped_files, saved_count, attempted, mkdirs, save_errors,
                gen_calls, gen_outcome, apply_calls, apply_outcome, loads, stdout >>

\* names agent documents carry
Names == {"a", "b"}

VARIABLES
    prog,            \* which script this run executes
    files_dict,      \* prepare_context: key -> content
    agents,          \* find_agents: descriptors kept so far, in scan order
    seen_names,      \* find_agents
    sp,              \* find_agents: search paths consumed so far
    ndocs,           \* find_agents: documents visited in the current directory
    occurrences,     \* find_agents: parsed documents visited so far, per name
    catalog          \* find_agents: the returned list

otherVars == << prog, files_dict, agents, seen_names, sp, ndocs, occurrences, catalog >>

vars == << applyVars, otherVars >>

(* inputs; --verbose, --model and --image only select lines printed to
   standard error and arguments handed to generate_diff and smartapply, none
   of which is recorded here *)
\* the argument lists tried: up to n of the values above, in that order
ArgLists(S, n) ==
    { [i \in 1..Len(pick) |-> S[pick[i]]] :
        pick \in { q \in SeqsUpTo(1..Len(S), n) :
                     \A i, j \in 1..Len(q) : i < j => q[i] < q[j] } }

ArgsSet ==
    [ dir : ArgLists(DirArgs, MaxTargets),
      file : ArgLists(FileArgs, MaxTargets),
      dry_run : BOOLEAN ]

\* positional goal (empty when absent), whether stdin is a terminal, stdin text
GoalInputs ==
    { [arg |-> <<"g">>, isatty |-> TRUE, stdin |-> <<>>],
      [arg |-> <<>>, isatty |-> FALSE, stdin |-> <<" ", "g", "\n">>],
      [arg |-> <<>>, isatty |-> FALSE, stdin |-> <<" ", "\n">>],
      [arg |-> <<>>, isatty |-> TRUE, stdin |-> <<>>] }

DiffTexts == { <<>>, <<" ", "\n">>, <<"d">>, <<"\n", "d", " ">> }

\* a dict: distinct keys, in insertion order
UpdatedMaps ==
    { u \in SeqsUpTo(UpdEntries, MaxUpdated) :
        \A i, j \in 1..Len(u) : i # j => u[i].path # u[j].path }

EmptyMap == [p \in {} |-> "x"]

InitOther ==
    /\ files_dict = EmptyMap
    /\ agents = <<>>
    /\ seen_names = {}
    /\ sp = 0
    /\ ndocs = 0
    /\ occurrences = [n \in Names |-> 0]
    /\ catalog = <<>>

InitApply ==
    /\ prog = "gptdiff_apply"
    /\ InitOther
    /\ pc = "goal"
    /\ exited = FALSE
    /\ exit_code = 0
    /\ args \in ArgsSet
    /\ goal = <<>>
    /\ target_dirs = <<>>
    /\ target_files = <<>>
    /\ files = EmptyMap
    /\ stop_heartbeat = FALSE
    /\ hb_pc = "idle"
    /\ dots = 0
    /\ diff_text = <<>>
    /\ updated_files = <<>>
    /\ idx = 1
    /\ skipped_files = <<>>
    /\ saved_count = 0
    /\ attempted = <<>>
    /\ mkdirs = {}
    /\ save_errors = <<>>
    /\ gen_calls = 0
    /\ gen_outcome = "none"
    /\ apply_calls = 0
    /\ apply_outcome = "none"
    /\ loads = 0
    /\ stdout = <<>>

\* sys.exit(code)
Exit(code) ==
    /\ pc' = "exit"
    /\ exited' = TRUE
    /\ exit_code' = code

\* lines 40-51
ResolveGoal ==
    /\ pc = "goal"
    /\ \E in \in GoalInputs :
        IF in.arg # <<>>
            THEN /\ goal' = in.arg
                 /\ pc' = "validate_dirs"
                 /\ UNCHANGED <<exited, exit_code>>
        ELSE IF ~in.isatty
            THEN /\ goal' = strip(in.stdin)
                 /\ IF strip(in.stdin) = <<>>
                        THEN Exit(1)
                        ELSE pc' = "validate_dirs" /\ UNCHANGED <<exited, exit_code>>
        ELSE /\ Exit(1)
             /\ UNCHANGED goal
    /\ UNCHANGED << args, target_dirs, target_files, files, stop_heartbeat, hb_pc, dots,
                    diff_text, updated_files, idx, skipped_files, saved_count,
                    attempted, mkdirs, save_errors, gen_calls, apply_calls,
                    loads, stdout, gen_outcome, apply_outcome >>
    /\ UNCHANGED otherVars

\* lines 53-64
ValidateDirs ==
    /\ pc = "validate_dirs"
    /\ LET dirs == IF args.dir = <<>> /\ args.file = <<>> THEN <<Dot>> ELSE args.dir
           bad == { i \in 1..Len(dirs) : ~isdir(abspath(dirs[i])) }
       IN /\ args' = [args EXCEPT !.dir = dirs]
          /\ IF bad # {}
                THEN LET first == CHOOSE i \in bad : \A j \in bad : i <= j
                     IN /\ target_dirs' = [i \in 1..(first - 1) |-> abspath(dirs[i])]
                        /\ Exit(1)
                ELSE /\ target_dirs' = [i \in 1..Len(dirs) |-> abspath(dirs[i])]
                     /\ pc' = "validate_files"
                     /\ UNCHANGED <<exited, exit_code>>
    /\ UNCHANGED << goal, target_files, files, stop_heartbeat, hb_pc, dots,
                    diff_text, updated_files, idx, skipped_files, saved_count,
                    attempted, mkdirs, save_errors, gen_calls, apply_calls,
                    loads, stdout, gen_outcome, apply_outcome >>
    /\ UNCHANGED otherVars

\* ValidateFiles with a missing file skipped instead of fatal
ValidateFiles_Skip ==
    /\ pc = "validate_files"
    /\ target_files' = SelectSeq([i \in 1..Len(args.file) |-> abspath(args.file[i])], isfile)
    /\ pc' = "load"
    /\ UNCHANGED << exited, exit_code, args, goal, target_dirs, files, stop_heartbeat,
                    hb_pc, dots, diff_text, updated_files, idx, skipped_files, saved_count,
                    attempted, mkdirs, save_errors, gen_calls, apply_calls,
                    loads, stdout, gen_outcome, apply_outcome >>
    /\ UNCHANGED otherVars

\* lines 66-81
ValidateFiles ==
    /\ pc = "validate_files"
    /\ LET bad == { i \in 1..Len(args.file) : ~isfile(abspath(args.file[i])) }
       IN IF bad # {}
            THEN LET first == CHOOSE i \in bad : \A j \in bad : i <= j
                 IN /\ target_files' = [i \in 1..(first - 1) |-> abspath(args.file[i])]
                    /\ Exit(1)
            ELSE /\ target_files' = [i \in 1..Len(args.file) |-> abspath(args.file[i])]
                 /\ pc' = "load"
                 /\ UNCHANGED <<exited, exit_code>>
    /\ UNCHANGED << args, goal, target_dirs, files, stop_heartbeat, hb_pc, dots,
                    diff_text, updated_files, idx, skipped_files, saved_count,
                    attempted, mkdirs, save_errors, gen_calls, apply_calls,
                    loads, stdout, gen_outcome, apply_outcome >>
    /\ UNCHANGED otherVars

\* gptdiff.load_project_files(target_dir, target_dir): the files below target_dir
load_project_files(target_dir) == { f \in DiskFiles : InSubtree(f, target_dir) }

\* lines 83-107; an individual file that cannot be read only draws a warning
LoadFiles ==
    /\ pc = "load"
    /\ \E readable \in SUBSET Range(target_files) :
        LET fromDirs == UNION { load_project_files(target_dirs[i]) : i \in 1..Len(target_dirs) }
        IN files' = [p \in fromDirs \cup readable |-> DiskContent(p)]
    /\ loads' = loads + Len(target_dirs) + Len(target_files)
    /\ pc' = "environment"
    /\ UNCHANGED << exited, exit_code, args, goal, target_dirs, target_files,
                    stop_heartbeat, hb_pc, dots, diff_text, updated_files, idx,
                    skipped_files, saved_count, attempted, mkdirs, save_errors,
                    gen_calls, apply_calls, stdout, gen_outcome, apply_outcome >>
    /\ UNCHANGED otherVars

\* lines 109-152: the environment text and the image payloads are built and
\* handed to generate_diff only; they leave no other trace in the state
BuildEnvironment ==
    /\ pc = "environment"
    /\ pc' = "start_heartbeat"
    /\ UNCHANGED << exited, exit_code, args, goal, target_dirs, target_files, files,
                    stop_heartbeat, hb_pc, dots, diff_text, updated_files, idx,
                    skipped_files, saved_count, attempted, mkdirs, save_errors,
                    gen_calls, apply_calls, loads, stdout, gen_outcome, apply_outcome >>
    /\ UNCHANGED otherVars

\* lines 155-164
StartHeartbeat ==
    /\ pc = "start_heartbeat"
    /\ stop_heartbeat' = FALSE
    /\ hb_pc' = "wait"
    /\ pc' = "call_generate"
    /\ UNCHANGED << exited, exit_code, args, goal, target_dirs, target_files, files,
                    dots, diff_text, updated_files, idx,
                    skipped_files, saved_count, attempted, mkdirs, save_errors,
                    gen_calls, apply_calls, loads, stdout, gen_outcome, apply_outcome >>
    /\ UNCHANGED otherVars

\* lines 166-176: generate_diff(**diff_kwargs) is entered
CallGenerateDiff ==
    /\ pc = "call_generate"
    /\ gen_calls' = gen_calls + 1
    /\ pc' = "in_generate"
    /\ UNCHANGED << exited, exit_code, args, goal, target_dirs, target_files, files,
                    stop_heartbeat, hb_pc, dots, diff_text, updated_files, idx,
                    skipped_files, saved_count, attempted, mkdirs, save_errors,
                    apply_calls, loads, stdout, gen_outcome, apply_outcome >>
    /\ UNCHANGED otherVars

\* line 176: the call returns a diff text
GenerateReturns ==
    /\ pc = "in_generate"
    /\ \E d \in DiffTexts : diff_text' = d
    /\ gen_outcome' = "returned"
    /\ pc' = "returned"
    /\ UNCHANGED << exited, exit_code, args, goal, target_dirs, target_files, files,
                    stop_heartbeat, hb_pc, dots, updated_files, idx,
                    skipped_files, saved_count, attempted, mkdirs, save_errors,
                    gen_calls, apply_calls, loads, stdout, apply_outcome >>
    /\ UNCHANGED otherVars

\* line 176 -> 179: the call raises an Exception
GenerateRaises ==
    /\ pc = "in_generate"
    /\ gen_outcome' = "raised"
    /\ pc' = "raised"
    /\ UNCHANGED << exited, exit_code, args, goal, target_dirs, target_files, files,
                    stop_heartbeat, hb_pc, dots, diff_text, updated_files, idx,
                    skipped_files, saved_count, attempted, mkdirs, save_errors,
                    gen_calls, apply_calls, loads, stdout, apply_outcome >>
    /\ UNCHANGED otherVars

\* lines 177-178
SetStopReturned ==
    /\ pc = "returned"
    /\ stop_heartbeat' = TRUE
    /\ pc' = "check_blank"
    /\ UNCHANGED << exited, exit_code, args, goal, target_dirs, target_files, files,
                    hb_pc, dots, diff_text, updated_files, idx,
                    skipped_files, saved_count, attempted, mkdirs, save_errors,
                    gen_calls, apply_calls, loads, stdout, gen_outcome, apply_outcome >>
    /\ UNCHANGED otherVars

\* SetStopRaised without line 180
SetStopRaised_NoSet ==
    /\ pc = "raised"
    /\ Exit(1)
    /\ UNCHANGED << args, goal, target_dirs, target_files, files, stop_heartbeat,
                    hb_pc, dots, diff_text, updated_files, idx,
                    skipped_files, saved_count, attempted, mkdirs, save_errors,
                    gen_calls, apply_calls, loads, stdout, gen_outcome, apply_outcome >>
    /\ UNCHANGED otherVars

\* lines 180-182
SetStopRaised ==
    /\ pc = "raised"
    /\ stop_heartbeat' = TRUE
    /\ Exit(1)
    /\ UNCHANGED << args, goal, target_dirs, target_files, files,
                    hb_pc, dots, diff_text, updated_files, idx,
                    skipped_files, saved_count, attempted, mkdirs, save_errors,
                    gen_calls, apply_calls, loads, stdout, gen_outcome, apply_outcome >>
    /\ UNCHANGED otherVars

\* CheckBlank with line 184 reduced to "if not diff_text"
CheckBlank_EmptyOnly ==
    /\ pc = "check_blank"
    /\ IF diff_text = <<>>
            THEN Exit(0)
            ELSE pc' = "show_diff" /\ UNCHANGED <<exited, exit_code>>
    /\ UNCHANGED << args, goal, target_dirs, target_files, files,
                    stop_heartbeat, hb_pc, dots, diff_text, updated_files, idx,
                    skipped_files, saved_count, attempted, mkdirs, save_errors,
                    gen_calls, apply_calls, loads, stdout, gen_outcome, apply_outcome >>
    /\ UNCHANGED otherVars

\* lines 184-186
CheckBlank ==
    /\ pc = "check_blank"
    /\ IF diff_text = <<>> \/ strip(diff_text) = <<>>
            THEN Exit(0)
            ELSE pc' = "show_diff" /\ UNCHANGED <<exited, exit_code>>
    /\ UNCHANGED << args, goal, target_dirs, target_files, files,
                    stop_heartbeat, hb_pc, dots, diff_text, updated_files, idx,
                    skipped_files, saved_count, attempted, mkdirs, save_errors,
                    gen_calls, apply_calls, loads, stdout, gen_outcome, apply_outcome >>
    /\ UNCHANGED otherVars

\* DryRunCheck without lines 194-196
DryRunCheck_Ignored ==
    /\ pc = "show_diff"
    /\ pc' = "call_smartapply"
    /\ UNCHANGED << exited, exit_code, args, goal, target_dirs, target_files, files,
                    stop_heartbeat, hb_pc, dots, diff_text, updated_files, idx,
                    skipped_files, saved_count, attempted, mkdirs, save_errors,
                    gen_calls, apply_calls, loads, stdout, gen_outcome, apply_outcome >>
    /\ UNCHANGED otherVars

\* lines 188-200
DryRunCheck ==
    /\ pc = "show_diff"
    /\ IF args.dry_run
            THEN Exit(0)
            ELSE pc' = "call_smartapply" /\ UNCHANGED <<exited, exit_code>>
    /\ UNCHANGED << args, goal, target_dirs, target_files, files,
                    stop_heartbeat, hb_pc, dots, diff_text, updated_files, idx,
                    skipped_files, saved_count, attempted, mkdirs, save_errors,
                    gen_calls, apply_calls, loads, stdout, gen_outcome, apply_outcome >>
    /\ UNCHANGED otherVars

\* lines 202-210, 215-242: smartapply returns the updated mapping
SmartapplyReturns ==
    /\ pc = "call_smartapply"
    /\ apply_calls' = apply_calls + 1
    /\ apply_outcome' = "returned"
    /\ \E u \in UpdatedMaps : updated_files' = u
    /\ skipped_files' = <<>>
    /\ saved_count' = 0
    /\ idx' = 1
    /\ pc' = "save"
    /\ UNCHANGED << exited, exit_code, args, goal, target_dirs, target_files, files,
                    stop_heartbeat, hb_pc, dots, diff_text,
                    attempted, mkdirs, save_errors, gen_calls, loads, stdout, gen_outcome >>
    /\ UNCHANGED otherVars

\* SmartapplyRaises with the error reported but line 213 missing
SmartapplyRaises_Ignored ==
    /\ pc = "call_smartapply"
    /\ apply_calls' = apply_calls + 1
    /\ apply_outcome' = "raised"
    /\ pc' = "save"
    /\ UNCHANGED << exited, exit_code, args, goal, target_dirs, target_files, files,
                    stop_heartbeat, hb_pc, dots, diff_text, updated_files, idx,
                    skipped_files, saved_count, attempted, mkdirs, save_errors,
                    gen_calls, loads, stdout, gen_outcome >>
    /\ UNCHANGED otherVars

\* lines 210-213: smartapply raises an Exception
SmartapplyRaises ==
    /\ pc = "call_smartapply"
    /\ apply_calls' = apply_calls + 1
    /\ apply_outcome' = "raised"
    /\ Exit(1)
    /\ UNCHANGED << args, goal, target_dirs, target_files, files,
                    stop_heartbeat, hb_pc, dots, diff_text, updated_files, idx,
                    skipped_files, saved_count, attempted, mkdirs, save_errors,
                    gen_calls, loads, stdout, gen_outcome >>

    /\ UNCHANGED otherVars

\* within_dirs with the test of line 229 made against '/' instead of '..'
RECURSIVE within_dirs_slash(_, _)
within_dirs_slash(abs_path, tdirs) ==
    IF tdirs = <<>> THEN [valid |-> FALSE, base |-> <<>>, rel |-> <<>>]
    ELSE LET rel == relpath(abs_path, Head(tdirs))
         IN IF ~startswith(rel, <<Slash>>)
                THEN [valid |-> TRUE, base |-> Head(tdirs), rel |-> rel]
                ELSE within_dirs_slash(abs_path, Tail(tdirs))

\* lines 221-239; None is rendered as the empty string
RECURSIVE within_dirs(_, _)
within_dirs(abs_path, tdirs) ==
    IF tdirs = <<>> THEN [valid |-> FALSE, base |-> <<>>, rel |-> <<>>]
    ELSE LET rel == relpath(abs_path, Head(tdirs))
         IN IF ~startswith(rel, DotDot)
                THEN [valid |-> TRUE, base |-> Head(tdirs), rel |-> rel]
                ELSE within_dirs(abs_path, Tail(tdirs))

is_within_targets(filepath, tdirs, tfiles) ==
    LET abs_path == abspath(filepath)
        byDir == within_dirs(abs_path, tdirs)
    IN IF byDir.valid THEN byDir
       ELSE IF \E i \in 1..Len(tfiles) : abs_path = tfiles[i]
            THEN [valid |-> TRUE, base |-> dirname(abs_path), rel |-> basename(abs_path)]
            ELSE [valid |-> FALSE, base |-> <<>>, rel |-> <<>>]

\* lines 245 and 277
resolve(path) == IF ~isabs(path) THEN abspath(path) ELSE path

\* the try-block of lines 253-261 either runs to the end or one of makedirs,
\* open and write raises
SaveOutcomes == { "saved", "raises" }

\* lines 244-261: one iteration of the write-back loop
SaveEntry ==
    /\ pc = "save"
    /\ idx <= Len(updated_files)
    /\ LET path == updated_files[idx].path
           abs_path == resolve(path)
           r == is_within_targets(abs_path, target_dirs, target_files)
       IN IF ~r.valid
            THEN /\ skipped_files' = Append(skipped_files, path)
                 /\ UNCHANGED <<saved_count, attempted, mkdirs, save_errors>>
            ELSE \E outcome \in SaveOutcomes :
                 /\ attempted' = Append(attempted, abs_path)
                 /\ mkdirs' = mkdirs \cup {dirname(abs_path)}
                 /\ saved_count' = IF outcome = "saved" THEN saved_count + 1 ELSE saved_count
                 /\ save_errors' = IF outcome = "saved" THEN save_errors
                                   ELSE Append(save_errors, path)
                 /\ UNCHANGED skipped_files
    /\ idx' = idx + 1
    /\ UNCHANGED << pc, exited, exit_code, args, goal, target_dirs, target_files, files,
                    stop_heartbeat, hb_pc, dots, diff_text, updated_files,
                    gen_calls, apply_calls, loads, stdout, gen_outcome, apply_outcome >>
    /\ UNCHANGED otherVars

\* lines 270-288: the two counters after the loop has visited entries i..
RECURSIVE count_changes(_, _, _, _, _, _)
count_changes(upd, i, orig, tdirs, tfiles, acc) ==
    IF i > Len(upd) THEN acc
    ELSE LET path == upd[i].path
             content == upd[i].content
             abs_path == resolve(path)
         IN IF ~is_within_targets(abs_path, tdirs, tfiles).valid
                THEN count_changes(upd, i + 1, orig, tdirs, tfiles, acc)
            ELSE IF abs_path \in DOMAIN orig
                THEN IF orig[abs_path] # content
                        THEN count_changes(upd, i + 1, orig, tdirs, tfiles,
                                 [acc EXCEPT !.changed_count = @ + 1])
                        ELSE count_changes(upd, i + 1, orig, tdirs, tfiles, acc)
            ELSE count_changes(upd, i + 1, orig, tdirs, tfiles,
                     [acc EXCEPT !.new_count = @ + 1])

\* lines 263-296, then main() returns and the process ends with status 0
Summary ==
    /\ pc = "save"
    /\ idx > Len(updated_files)
    /\ LET c == count_changes(updated_files, 1, files, target_dirs, target_files,
                              [changed_count |-> 0, new_count |-> 0])
       IN stdout' = Append(stdout, [modified |-> c.changed_count, new |-> c.new_count])
    /\ pc' = "done"
    /\ exited' = TRUE
    /\ exit_code' = 0
    /\ UNCHANGED << args, goal, target_dirs, target_files, files,
                    stop_heartbeat, hb_pc, dots, diff_text, updated_files, idx,
                    skipped_files, saved_count, attempted, mkdirs, save_errors,
                    gen_calls, apply_calls, loads, gen_outcome, apply_outcome >>
    /\ UNCHANGED otherVars

(* heartbeat(): a daemon thread, so it runs only while the process lives *)
CallFinished == pc \notin {"goal", "validate_dirs", "validate_files", "load", "environment",
                           "start_heartbeat", "call_generate", "in_generate"}

mainVars == << pc, exited, exit_code, args, goal, target_dirs, target_files, files,
               diff_text, updated_files, idx, skipped_files, saved_count, attempted,
               mkdirs, save_errors, gen_calls, gen_outcome, apply_calls, apply_outcome,
               loads, stdout >>

\* HeartbeatTimeout with the loop sleeping 5 seconds instead of waiting on
\* the event
HeartbeatTimeout_IgnoresStop ==
    /\ ~exited
    /\ hb_pc = "wait"
    /\ dots < MaxBeats
    /\ hb_pc' = "print"
    /\ UNCHANGED <<mainVars, stop_heartbeat, dots>>
    /\ UNCHANGED otherVars

\* line 158: wait(5) times out with the event unset
HeartbeatTimeout ==
    /\ ~exited
    /\ hb_pc = "wait"
    /\ ~stop_heartbeat
    /\ dots < MaxBeats
    /\ hb_pc' = "print"
    /\ UNCHANGED <<mainVars, stop_heartbeat, dots>>
    /\ UNCHANGED otherVars

\* lines 159-161
HeartbeatPrint ==
    /\ ~exited
    /\ hb_pc = "print"
    /\ dots' = dots + 1
    /\ hb_pc' = "wait"
    /\ UNCHANGED <<mainVars, stop_heartbeat>>
    /\ UNCHANGED otherVars

\* line 158: wait(5) returns True, the loop ends
HeartbeatStop ==
    /\ ~exited
    /\ hb_pc = "wait"
    /\ stop_heartbeat
    /\ hb_pc' = "done"
    /\ UNCHANGED <<mainVars, stop_heartbeat, dots>>
    /\ UNCHANGED otherVars

NextApply ==
    \/ ResolveGoal
    \/ ValidateDirs
    \/ ValidateFiles
    \/ LoadFiles
    \/ BuildEnvironment
    \/ StartHeartbeat
    \/ CallGenerateDiff
    \/ GenerateReturns
    \/ GenerateRaises
    \/ SetStopReturned
    \/ SetStopRaised
    \/ CheckBlank
    \/ DryRunCheck
    \/ SmartapplyReturns
    \/ SmartapplyRaises
    \/ SaveEntry
    \/ Summary
    \/ HeartbeatTimeout
    \/ HeartbeatPrint
    \/ HeartbeatStop

(* ====================== hooks/prepare_context.py ======================= *)
applyOnly == << goal, target_dirs, target_files, files, stop_heartbeat, hb_pc, dots,
                diff_text, updated_files, skipped_files, saved_count, attempted, mkdirs,
                save_errors, gen_calls, gen_outcome, apply_calls, apply_outcome >>

InitApplyOnly ==
    /\ goal = <<>>
    /\ target_dirs = <<>>
    /\ target_files = <<>>
    /\ files = EmptyMap
    /\ stop_heartbeat = FALSE
    /\ hb_pc = "idle"
    /\ dots = 0
    /\ diff_text = <<>>
    /\ updated_files = <<>>
    /\ skipped_files = <<>>
    /\ saved_count = 0
    /\ attempted = <<>>
    /\ mkdirs = {}
    /\ save_errors = <<>>
    /\ gen_calls = 0
    /\ gen_outcome = "none"
    /\ apply_calls = 0
    /\ apply_outcome = "none"

PrepareArgsSet ==
    [ dir : ArgLists(DirArgs, MaxTargets),
      file : ArgLists(FileArgs, MaxTargets),
      list_only : BOOLEAN,
      json : BOOLEAN ]

\* lines 23-36
InitPrepare ==
    /\ prog = "prepare_context"
    /\ InitApplyOnly
    /\ agents = <<>>
    /\ seen_names = {}
    /\ sp = 0
    /\ ndocs = 0
    /\ occurrences = [n \in Names |-> 0]
    /\ catalog = <<>>
    /\ \E a \in PrepareArgsSet :
        args = IF a.dir = <<>> /\ a.file = <<>> THEN [a EXCEPT !.dir = <<Dot>>] ELSE a
    /\ files_dict = EmptyMap
    /\ pc = "p_dirs"
    /\ idx = 1
    /\ exited = FALSE
    /\ exit_code = 0
    /\ loads = 0
    /\ stdout = <<>>

prepareRest == << applyOnly, prog, args, agents, seen_names, sp, ndocs, occurrences, catalog >>

\* lines 49-59: the key of a loaded project file
dir_key(abs_path, target_dir) ==
    LET rel_to_target == relpath(abs_path, target_dir)
        target_basename == basename(rstrip(target_dir, {Slash}))
    IN IF target_basename # <<>> /\ target_basename # Dot
          THEN path_join(target_basename, rel_to_target)
          ELSE rel_to_target

\* lines 39-59: one iteration of the directory loop
PrepareDir ==
    /\ pc = "p_dirs"
    /\ idx <= Len(args.dir)
    /\ LET target_dir == abspath(args.dir[idx])
       IN IF ~isdir(target_dir)
            THEN /\ pc' = "exit"
                 /\ exited' = TRUE
                 /\ exit_code' = 1
                 /\ UNCHANGED <<files_dict, idx, loads>>
            ELSE LET project_files == load_project_files(target_dir)
                     keys == { dir_key(f, target_dir) : f \in project_files }
                     new == [k \in keys |->
                               DiskContent(CHOOSE f \in project_files :
                                               dir_key(f, target_dir) = k)]
                 IN /\ files_dict' = new @@ files_dict
                    /\ loads' = loads + 1
                    /\ idx' = idx + 1
                    /\ UNCHANGED <<pc, exited, exit_code>>
    /\ UNCHANGED <<prepareRest, stdout>>

\* line 61: the directory loop is over
PrepareDirsDone ==
    /\ pc = "p_dirs"
    /\ idx > Len(args.dir)
    /\ pc' = "p_files"
    /\ idx' = 1
    /\ UNCHANGED <<prepareRest, stdout, files_dict, exited, exit_code, loads>>

\* lines 62-74: one iteration of the file loop; a file that cannot be read
\* only draws a warning
PrepareFile ==
    /\ pc = "p_files"
    /\ idx <= Len(args.file)
    /\ LET target_file == abspath(args.file[idx])
       IN IF ~isfile(target_file)
            THEN /\ pc' = "exit"
                 /\ exited' = TRUE
                 /\ exit_code' = 1
                 /\ UNCHANGED <<files_dict, idx, loads>>
            ELSE /\ \E readable \in BOOLEAN :
                       files_dict' =
                           IF readable
                           THEN (basename(target_file) :> DiskContent(target_file)) @@ files_dict
                           ELSE files_dict
                 /\ loads' = loads + 1
                 /\ idx' = idx + 1
                 /\ UNCHANGED <<pc, exited, exit_code>>
    /\ UNCHANGED <<prepareRest, stdout>>

\* lines 76-88, then main() returns and the process ends with status 0
PrepareOutput ==
    /\ pc = "p_files"
    /\ idx > Len(args.file)
    /\ stdout' = IF args.json
                    THEN <<[json |-> TRUE, list_only |-> args.list_only,
                            keys |-> DOMAIN files_dict]>>
                 ELSE IF args.list_only
                    THEN IF DOMAIN files_dict = {} THEN <<>>
                         ELSE <<[json |-> FALSE, list_only |-> TRUE,
                                 keys |-> DOMAIN files_dict]>>
                 ELSE <<[json |-> FALSE, list_only |-> FALSE, keys |-> DOMAIN files_dict]>>
    /\ pc' = "done"
    /\ exited' = TRUE
    /\ exit_code' = 0
    /\ UNCHANGED <<prepareRest, files_dict, idx, loads>>

NextPrepare ==
    \/ PrepareDir
    \/ PrepareDirsDone
    \/ PrepareFile
    \/ PrepareOutput


(* ========================= hooks/list_agents.py ======================== *)
\* An agent document as parse_agent_file sees it: whether the text matches
\* the frontmatter pattern, the frontmatter's name (empty when there is no
\* name line) and the stem of the file name.
Docs ==
    { [parses |-> FALSE, name |-> "", stem |-> "a"],
      [parses |-> TRUE, name |-> "b", stem |-> "a"],
      [parses |-> TRUE, name |-> "", stem |-> "a"] }

\* the order of str on the names in use
NameOrder == [n \in Names |-> IF n = "a" THEN 1 ELSE 2]

\* lines 15-48, reduced to the fields find_agents reads; None is the record
\* with ok = FALSE
parse_agent_file(doc) ==
    IF ~doc.parses THEN [ok |-> FALSE, name |-> ""]
    ELSE [ok |-> TRUE, name |-> IF doc.name = "" THEN doc.stem ELSE doc.name]

\* line 82: sorted(agents, key=lambda a: a['name']) -- a stable sort
RECURSIVE insert_sorted(_, _)
insert_sorted(l, a) ==
    IF l = <<>> THEN <<a>>
    ELSE IF NameOrder[a.name] < NameOrder[Head(l).name] THEN <<a>> \o l
    ELSE <<Head(l)>> \o insert_sorted(Tail(l), a)

RECURSIVE sorted_by_name(_)
sorted_by_name(l) ==
    IF l = <<>> THEN <<>>
    ELSE insert_sorted(sorted_by_name(SubSeq(l, 1, Len(l) - 1)), l[Len(l)])

\* lines 53-54
InitAgents ==
    /\ prog = "list_agents"
    /\ InitApplyOnly
    /\ files_dict = EmptyMap
    /\ args = [dir |-> <<>>, file |-> <<>>, dry_run |-> FALSE]
    /\ idx = 1
    /\ exited = FALSE
    /\ exit_code = 0
    /\ loads = 0
    /\ stdout = <<>>
    /\ pc = "a_path"
    /\ agents = <<>>
    /\ seen_names = {}
    /\ sp = 0
    /\ ndocs = 0
    /\ occurrences = [n \in Names |-> 0]
    /\ catalog = <<>>

agentsRest == << applyOnly, prog, files_dict, args, idx, exited, exit_code, loads, stdout >>

\* lines 56-59: the next search path does not exist
SkipSearchPath ==
    /\ pc = "a_path"
    /\ sp < MaxPaths
    /\ sp' = sp + 1
    /\ UNCHANGED <<agentsRest, pc, agents, seen_names, ndocs, occurrences, catalog>>

\* lines 56-62: the next search path exists
EnterSearchPath ==
    /\ pc = "a_path"
    /\ sp < MaxPaths
    /\ sp' = sp + 1
    /\ ndocs' = 0
    /\ pc' = "a_nested"
    /\ UNCHANGED <<agentsRest, agents, seen_names, occurrences, catalog>>

\* Visit with a later document of a known name replacing the earlier one
Visit_LastWins(doc, kind) ==
    LET agent == parse_agent_file(doc)
        source == IF agent.ok THEN <<sp, kind, agent.name, occurrences[agent.name] + 1>>
                  ELSE <<>>
        entry == [name |-> agent.name, source |-> source]
    IN /\ ndocs' = ndocs + 1
       /\ IF agent.ok
            THEN /\ agents' = IF agent.name \in seen_names
                                THEN [i \in 1..Len(agents) |->
                                        IF agents[i].name = agent.name THEN entry
                                        ELSE agents[i]]
                                ELSE Append(agents, entry)
                 /\ seen_names' = seen_names \cup {agent.name}
                 /\ occurrences' = [occurrences EXCEPT ![agent.name] = @ + 1]
            ELSE UNCHANGED <<agents, seen_names, occurrences>>

\* lines 66-70 and 76-80: one agent file is visited.  str(agent_file), which
\* identifies the file, is rendered as the search path, the kind of scan and
\* the file's rank among the parsed documents of its name in scan order.
Visit(doc, kind) ==
    LET agent == parse_agent_file(doc)
        source == IF agent.ok THEN <<sp, kind, agent.name, occurrences[agent.name] + 1>>
                  ELSE <<>>
    IN /\ ndocs' = ndocs + 1
       /\ IF agent.ok /\ agent.name \notin seen_names
            THEN /\ agents' = Append(agents, [name |-> agent.name, source |-> source])
                 /\ seen_names' = seen_names \cup {agent.name}
            ELSE UNCHANGED <<agents, seen_names>>
       /\ occurrences' = IF agent.ok
                            THEN [occurrences EXCEPT ![agent.name] = @ + 1]
                            ELSE occurrences

\* lines 62-70: the next file of the */agents/*.md scan
VisitNested ==
    /\ pc = "a_nested"
    /\ ndocs < MaxDocs
    /\ \E doc \in Docs : Visit(doc, "nested")
    /\ UNCHANGED <<agentsRest, pc, sp, catalog>>

\* lines 72-74: the */agents/*.md scan is over
EndNested ==
    /\ pc = "a_nested"
    /\ ndocs' = 0
    /\ pc' = "a_direct"
    /\ UNCHANGED <<agentsRest, sp, agents, seen_names, occurrences, catalog>>

\* lines 75-80: the next file of the agents/*.md scan
VisitDirect ==
    /\ pc = "a_direct"
    /\ ndocs < MaxDocs
    /\ \E doc \in Docs : Visit(doc, "direct")
    /\ UNCHANGED <<agentsRest, pc, sp, catalog>>

\* line 56: the agents/*.md scan is over, on to the next search path
EndDirect ==
    /\ pc = "a_direct"
    /\ ndocs' = 0
    /\ pc' = "a_path"
    /\ UNCHANGED <<agentsRest, sp, agents, seen_names, occurrences, catalog>>

\* line 82: no search path is left
ReturnAgents ==
    /\ pc = "a_path"
    /\ catalog' = sorted_by_name(agents)
    /\ pc' = "a_done"
    /\ UNCHANGED <<agentsRest, sp, agents, seen_names, ndocs, occurrences>>

NextAgents ==
    \/ SkipSearchPath
    \/ EnterSearchPath
    \/ VisitNested
    \/ EndNested
    \/ VisitDirect
    \/ EndDirect
    \/ ReturnAgents

(* ========================== the specification ========================== *)
Init == InitApply \/ InitPrepare \/ InitAgents

Next == NextApply \/ NextPrepare \/ NextAgents

Spec == Init /\ [][Next]_vars

\* The scheduler runs the heartbeat thread whenever it can take a step.
FairSpec == Spec /\ WF_vars(HeartbeatPrint) /\ WF_vars(HeartbeatStop)

(* ----------------------------- properties ----------------------------- *)
\* The scope of a run, as the specification words it: the subtree of a
\* validated target directory, or exactly a validated target file.
InScope(path) ==
    \/ \E i \in 1..Len(target_dirs) : InSubtree(path, target_dirs[i])
    \/ \E i \in 1..Len(target_files) : abspath(path) = target_files[i]

Saving == prog = "gptdiff_apply" /\ pc \in {"save", "done"}

WriteAttemptedFor(path) ==
    \E k \in 1..Len(attempted) :
        /\ abspath(attempted[k]) = abspath(path)
        /\ dirname(attempted[k]) \in mkdirs

IsBlank(text) == \A i \in 1..Len(text) : text[i] \in Whitespace

Missing(p) == abspath(p) \notin DiskDirs \cup DiskFiles

\* C1: an entry of the updated mapping whose absolute path is outside every
\* validated target directory's subtree and equals no validated target file
\* is never written (no makedirs, no open) and, once the loop has visited
\* it, is in the skipped list.
C1_OutOfScopeNeverWritten ==
    Saving =>
        \A i \in 1..Len(updated_files) :
            ~InScope(updated_files[i].path) =>
                /\ \A k \in 1..Len(attempted) :
                        abspath(attempted[k]) # abspath(updated_files[i].path)
                /\ (i < idx => updated_files[i].path \in Range(skipped_files))

C1_Witness ==
    /\ prog = "gptdiff_apply"
    /\ pc = "done"
    /\ attempted # <<>>
    /\ \E i \in 1..Len(updated_files) :
        /\ ~InScope(updated_files[i].path)
        /\ updated_files[i].path \in Range(skipped_files)

\* C2: the summary line reports, as modified, the number of in-scope entries
\* of the updated mapping whose path was in the original mapping with other
\* content and, as new, the number of in-scope entries whose path was not in
\* the original mapping.
C2_CountsOverInScopeEntries ==
    (prog = "gptdiff_apply" /\ pc = "done") =>
        LET in_scope == { i \in 1..Len(updated_files) : InScope(updated_files[i].path) }
            modified == { i \in in_scope :
                            /\ resolve(updated_files[i].path) \in DOMAIN files
                            /\ files[resolve(updated_files[i].path)] # updated_files[i].content }
            new == { i \in in_scope : resolve(updated_files[i].path) \notin DOMAIN files }
        IN /\ Len(stdout) = 1
           /\ stdout[1].modified = Cardinality(modified)
           /\ stdout[1].new = Cardinality(new)

\* C3: once generate_diff has returned an empty or whitespace-only text the
\* run can only end with status 0: smartapply is never called and no write
\* is attempted.
C3_BlankDiffExitsClean ==
    (prog = "gptdiff_apply" /\ gen_outcome = "returned" /\ IsBlank(diff_text)) =>
        /\ pc \in {"returned", "check_blank", "exit"}
        /\ (exited => exit_code = 0)
        /\ apply_calls = 0
        /\ attempted = <<>>

C3_Witness ==
    /\ gen_outcome = "returned"
    /\ diff_text = <<" ", "\n">>
    /\ pc = "exit"
    /\ exit_code = 0

\* C4: once the generate_diff call has finished, by returning or by raising,
\* and the main flow has left the statement that follows it, the heartbeat
\* stop event is set.
C4_StopSetAfterCall ==
    (gen_outcome # "none" /\ pc \notin {"returned", "raised"}) => stop_heartbeat

C4_Witness ==
    /\ gen_outcome = "raised"
    /\ pc = "exit"
    /\ stop_heartbeat
    /\ hb_pc = "print"

\* C5: when a --dir or --file argument names something that does not exist,
\* gptdiff_apply loads nothing, calls neither generate_diff nor smartapply,
\* writes nothing and can only end with status 1; prepare_context prints
\* nothing to standard output and can only end with status 1.
C5_MissingTargetIsFatal ==
    (\/ \E i \in 1..Len(args.dir) : Missing(args.dir[i])
     \/ \E i \in 1..Len(args.file) : Missing(args.file[i])) =>
        /\ prog = "gptdiff_apply" =>
            /\ pc \in {"goal", "validate_dirs", "validate_files", "exit"}
            /\ loads = 0
            /\ gen_calls = 0
            /\ apply_calls = 0
            /\ attempted = <<>>
            /\ (exited => exit_code = 1)
        /\ prog = "prepare_context" =>
            /\ pc \in {"p_dirs", "p_files", "exit"}
            /\ stdout = <<>>
            /\ (exited => exit_code = 1)

C5_Witness ==
    /\ prog = "gptdiff_apply"
    /\ goal # <<>>
    /\ target_dirs # <<>>
    /\ \E i \in 1..Len(args.file) : Missing(args.file[i])
    /\ pc = "exit"
    /\ exit_code = 1

\* C6: generate_diff and smartapply are each invoked at most once, smartapply
\* only after generate_diff returned a non-blank diff; when either raises the
\* run can only end with status 1 and no write is attempted.
C6_CallsOnceNoRetry ==
    /\ gen_calls <= 1
    /\ apply_calls <= 1
    /\ (apply_calls > 0 => (gen_outcome = "returned" /\ ~IsBlank(diff_text)))
    /\ (gen_outcome = "raised" \/ apply_outcome = "raised") =>
        /\ pc \in {"raised", "exit"}
        /\ (exited => exit_code = 1)
        /\ attempted = <<>>

C6_Witness ==
    /\ apply_outcome = "raised"
    /\ gen_calls = 1
    /\ apply_calls = 1
    /\ pc = "exit"
    /\ exit_code = 1

\* C7: after a write failure for one in-scope path the run still ends with
\* the summary line and status 0, the failure is reported for that path
\* only, and a write is attempted for every in-scope entry that follows it.
C7_WriteFailureNotFatal ==
    (Saving /\ save_errors # <<>>) =>
        /\ exited => (pc = "done" /\ exit_code = 0 /\ Len(stdout) = 1)
        /\ \A k \in 1..Len(save_errors) :
                \E i \in 1..Len(updated_files) :
                    /\ updated_files[i].path = save_errors[k]
                    /\ \A j \in 1..Len(save_errors) : save_errors[j] = save_errors[k] => j = k
        /\ pc = "done" =>
            \A k, i \in 1..Len(updated_files) :
                (k < i /\ updated_files[k].path \in Range(save_errors)
                       /\ InScope(updated_files[i].path))
                    => WriteAttemptedFor(updated_files[i].path)

\* C8: the list find_agents returns holds at most one descriptor per name,
\* holds one for every name that a parsed document carried, and the one it
\* holds for a name comes from the first document of that name in scan order.
C8_FirstOccurrenceWins ==
    pc = "a_done" =>
        /\ \A i, j \in 1..Len(catalog) : catalog[i].name = catalog[j].name => i = j
        /\ \A i \in 1..Len(catalog) :
            /\ catalog[i].source[3] = catalog[i].name
            /\ catalog[i].source[4] = 1
        /\ \A n \in Names :
            occurrences[n] > 0 => \E i \in 1..Len(catalog) : catalog[i].name = n

C8_Witness ==
    /\ pc = "a_done"
    /\ Len(catalog) = 2
    /\ occurrences["a"] = 2
    /\ \E i \in 1..Len(catalog) :
        catalog[i].name = "a" /\ catalog[i].source[1] = 1 /\ catalog[i].source[2] = "nested"

\* C9: with --dry-run, once generate_diff has returned a non-blank diff the
\* run can only end with status 0: smartapply is never called and no write
\* is attempted.
C9_DryRunAppliesNothing ==
    (prog = "gptdiff_apply" /\ args.dry_run /\ gen_outcome = "returned"
        /\ ~IsBlank(diff_text)) =>
        /\ pc \in {"returned", "check_blank", "show_diff", "exit"}
        /\ (exited => exit_code = 0)
        /\ apply_calls = 0
        /\ attempted = <<>>

C9_Witness ==
    /\ prog = "gptdiff_apply"
    /\ args.dry_run
    /\ gen_outcome = "returned"
    /\ diff_text = <<"\n", "d", " ">>
    /\ pc = "exit"
    /\ exit_code = 0

\* C10: every entry of the updated mapping that lies in the subtree of a
\* validated target directory, whatever its components are called, or that
\* equals a validated target file, is written once the loop has visited it
\* (makedirs on its parent, then open) and is never in the skipped list.
C10_InScopeAlwaysWritten ==
    Saving =>
        \A i \in 1..Len(updated_files) :
            InScope(updated_files[i].path) =>
                /\ updated_files[i].path \notin Range(skipped_files)
                /\ (i < idx => WriteAttemptedFor(updated_files[i].path))

\* C11 as claimed: the heartbeat thread prints no progress line once the
\* generate_diff call has returned or raised, and it eventually leaves its
\* loop.
C11_NoBeatAfterCall ==
    /\ [][(hb_pc = "print" /\ hb_pc' = "wait") => ~CallFinished]_vars
    /\ (CallFinished ~> hb_pc = "done")

\* C11, amended: once the stop event is set the heartbeat thread begins no
\* further iteration (no wait times out any more, so the only progress line
\* still to come is that of an iteration already past its wait), and the
\* thread leaves its loop unless the process ends first.
C11_NoNewBeatAfterStop ==
    /\ [][stop_heartbeat => (hb_pc' = "print" => hb_pc = "print")]_vars
    /\ (stop_heartbeat ~> (hb_pc = "done" \/ exited))

C11_Witness ==
    /\ stop_heartbeat
    /\ hb_pc = "print"
    /\ pc = "check_blank"

====
